---- MODULE Spec2Model ----
(***************************************************************************)
(* Model of class process_data of submission/project-pre-processing.ipynb: *)
(* the beat segmenter (separate_hearbeats), the record aggregator          *)
(* (create_img_arrays with the image_arrays / label_strings views) and the *)
(* rasterizer (get_image_array).                                           *)
(*                                                                         *)
(* Conventions.  A Python list / numpy array is a TLA+ sequence; Python    *)
(* index p is TLA+ index p + 1.  mean_rate is a float in the program; the  *)
(* model keeps it in hundredths (45473 stands for 454.73) and scale_factor *)
(* in thousandths, so that (mean_rate * 0.786) / 2 is the exact quotient   *)
(* mean * 786 / 200000.                                                    *)
(***************************************************************************)
EXTENDS Integers, Sequences, FiniteSets, TLC

VARIABLES
    image_arrays,        \* self.__image_arrays
    label_strings,       \* self.__label_strings
    pc,                  \* position of the running call
    supergroup_classes,  \* argument of the running create_img_arrays call
    record_names,        \* record names the for loop has not reached yet
    signal,              \* local of create_img_arrays: channel 0 of the record
    annotations,         \* local: [sample |-> positions, symbol |-> symbols]
    mean,                \* local: mean beat distance, in hundredths
    beats,               \* local: windows returned by separate_hearbeats
    labels,              \* local: labels returned by separate_hearbeats
    call_args,           \* history: the grouping tables of the calls made so far
    data,                \* get_image_array: its parameter
    fig,                 \* get_image_array: "none" | "open" | "closed"
    buf,                 \* get_image_array: "none" | "open" | "closed"
    img_array,           \* get_image_array: the value returned
    open_figs,           \* pyplot's registry: figures created and not closed
    renders              \* direct get_image_array calls made so far

vars == <<image_arrays, label_strings, pc, supergroup_classes, record_names,
          signal, annotations, mean, beats, labels, call_args,
          data, fig, buf, img_array, open_figs, renders>>

aggVars == <<image_arrays, label_strings, supergroup_classes, record_names,
             signal, annotations, mean, beats, labels, call_args>>

gfxVars == <<data, fig, buf, img_array, open_figs, renders>>

----------------------------------------------------------------------------
(* Bounds of the model *)

MaxSigLen == 4
MaxAnn == 4
MaxRecords == 2
MaxCalls == 2
MaxRenders == 3

----------------------------------------------------------------------------
(* Program constants *)

\* start = 2
start == 2
\* end = -1
end == -1
\* scale_factor = 0.786, in thousandths
scale_factor == 786
\* width = 362, height = 281
width == 362
height == 281
\* def get_image_array(data): one positional parameter
get_image_array_params == 1
\* self.get_image_array(beat): the bound call passes self and beat
bound_call_args == 2

\* supergroups_exc_n
supergroups_exc_n ==
    [s \in {"A", "a", "J", "S", "e", "j", "n", "V", "r", "E", "F", "f", "Q", "?"} |->
        CASE s \in {"A", "a", "J", "S", "e", "j", "n"} -> 0
          [] s \in {"V", "r", "E"} -> 1
          [] s \in {"F", "f"} -> 2
          [] OTHER -> 3]

\* supergroups_inc_n
supergroups_inc_n == [s \in {"N"} |-> 4]

Tables == {supergroups_exc_n, supergroups_inc_n}

----------------------------------------------------------------------------
(* Inputs: what load_data and get_mean_heartrate can return *)

\* annotation symbols of the records: two beat symbols the tables know and
\* the rhythm-change mark "+", which no table has
Symbols == {"V", "N", "+"}

\* mean beat distances in hundredths: 2.54, 2.55, 5.09, 7.64
Means == {254, 255, 509, 764}

\* the signal whose sample at Python index i is i
Ramp(n) == [i \in 1..n |-> i - 1]

\* the positions of set S in increasing order
SortedSeq(S) ==
    CHOOSE s \in [1..Cardinality(S) -> S] :
        \A i, j \in 1..Cardinality(S) : i < j => s[i] < s[j]

\* annotation streams over a signal of n samples: strictly increasing
\* positions inside the signal, at most MaxAnn of them, symbols from syms
AnnotationsOver(n, syms) ==
    UNION { { [sample |-> SortedSeq(S), symbol |-> sy] :
                sy \in [1..Cardinality(S) -> syms] } :
            S \in {T \in SUBSET (0..(n - 1)) : Cardinality(T) <= MaxAnn} }

\* what load_data and get_mean_heartrate return for one record
RecordsOver(syms, means) ==
    UNION { { [signal |-> Ramp(n), annotations |-> a, mean |-> m] :
                a \in AnnotationsOver(n, syms), m \in means } :
            n \in 0..MaxSigLen }

\* the records separate_hearbeats is explored on
Records == RecordsOver(Symbols, Means)

\* the records of the database create_img_arrays loads from: beats 'A', 'V'
\* and 'N', mean beat distances 2.55 (frame 1) and 7.64 (frame 3)
mitdb == RecordsOver({"A", "V", "N"}, {255, 764})

\* two worked examples over the signal 0..999: one 'N' annotation at 500
\* with mean beat distance 26.00, and two 'N' annotations with record 100's
\* mean beat distance 454.73
Examples ==
    { [signal |-> Ramp(1000),
       annotations |-> [sample |-> <<500>>, symbol |-> <<"N">>],
       mean |-> 2600],
      [signal |-> Ramp(1000),
       annotations |-> [sample |-> <<300, 700>>, symbol |-> <<"N", "N">>],
       mean |-> 45473] }

NoAnnotations == [sample |-> <<>>, symbol |-> <<>>]

----------------------------------------------------------------------------
(* separate_hearbeats *)

\* Python's int() of the quotient num / den: truncation toward zero
int(num, den) == IF num >= 0 THEN num \div den ELSE -((-num) \div den)

FrameRounded(mean_rate) == int(mean_rate * scale_factor + 100000, 2 * 100 * 1000)

\* frame = int((mean_rate * scale_factor) / 2)
Frame(mean_rate) == int(mean_rate * scale_factor, 2 * 100 * 1000)

\* a slice bound as Python normalises it for a sequence of n elements
SliceIndex(a, n) ==
    IF a < 0 THEN (IF a + n < 0 THEN 0 ELSE a + n)
    ELSE (IF a > n THEN n ELSE a)

PySliceInclusive(s, a, b) ==
    LET lo == SliceIndex(a, Len(s))
        hi == SliceIndex(b + 1, Len(s))
    IN  [k \in 1..(IF hi > lo THEN hi - lo ELSE 0) |-> s[lo + k]]

\* s[a:b]
PySlice(s, a, b) ==
    LET lo == SliceIndex(a, Len(s))
        hi == SliceIndex(b, Len(s))
    IN  [k \in 1..(IF hi > lo THEN hi - lo ELSE 0) |-> s[lo + k]]

RECURSIVE SegLoopUnfiltered(_, _, _, _, _, _)
SegLoopUnfiltered(sig, anns, frame, classes, i, acc) ==
    IF i > Len(anns.sample) THEN acc
    ELSE LET pos == anns.sample[i]
             sym == anns.symbol[i]
             win == Append(acc.signal_images, PySlice(sig, pos - frame, pos + frame))
         IN  SegLoopUnfiltered(sig, anns, frame, classes, i + 1,
                 [signal_images |-> win,
                  labels |-> IF sym \in DOMAIN classes
                             THEN Append(acc.labels, classes[sym])
                             ELSE acc.labels])

RECURSIVE SegLoopGlobalTable(_, _, _, _, _, _)
SegLoopGlobalTable(sig, anns, frame, classes, i, acc) ==
    IF i > Len(anns.sample) THEN acc
    ELSE LET pos == anns.sample[i]
             sym == anns.symbol[i]
             all == [s \in DOMAIN supergroups_exc_n \cup DOMAIN supergroups_inc_n |->
                       IF s \in DOMAIN supergroups_inc_n
                       THEN supergroups_inc_n[s] ELSE supergroups_exc_n[s]]
         IN  IF sym \in DOMAIN all
             THEN SegLoopGlobalTable(sig, anns, frame, classes, i + 1,
                      [signal_images |-> Append(acc.signal_images,
                                            PySlice(sig, pos - frame, pos + frame)),
                       labels |-> Append(acc.labels, all[sym])])
             ELSE SegLoopGlobalTable(sig, anns, frame, classes, i + 1, acc)

\* for i, pos in enumerate(annotations.sample): ... from annotation i on
RECURSIVE SegLoop(_, _, _, _, _, _)
SegLoop(sig, anns, frame, classes, i, acc) ==
    IF i > Len(anns.sample) THEN acc
    ELSE LET pos == anns.sample[i]
             sym == anns.symbol[i]
         IN  IF sym \in DOMAIN classes
             THEN SegLoop(sig, anns, frame, classes, i + 1,
                      [signal_images |-> Append(acc.signal_images,
                                            PySlice(sig, pos - frame, pos + frame)),
                       labels |-> Append(acc.labels, classes[sym])])
             ELSE SegLoop(sig, anns, frame, classes, i + 1, acc)

\* separate_hearbeats(signal, annotations, mean_rate, supergroup_classes)
separate_hearbeats(sig, anns, mean_rate, classes) ==
    LET frame == Frame(mean_rate)
    IN  SegLoop(sig, anns, frame, classes, 1,
                [signal_images |-> <<>>, labels |-> <<>>])

----------------------------------------------------------------------------
(* get_image_array *)

\* an argument of get_image_array: an array of ndim dimensions holding the
\* samples; plt.plot draws arrays of one or two dimensions and raises
\* ValueError for more
Array(ndim, samples) == [ndim |-> ndim, samples |-> samples]

Plottable(d) == d.ndim <= 2

\* the pixel array rendered from a window
Image(d) == [height |-> height, width |-> width, channels |-> 1, plot |-> d]

\* the arguments of the direct calls explored
RenderInputs == {Array(1, Ramp(n)) : n \in 0..2} \cup {Array(3, Ramp(1))}

----------------------------------------------------------------------------
(* create_img_arrays *)

\* the locals of an iteration are rebound by the next one and are gone when
\* the call returns or raises
ClearLocals ==
    /\ signal' = <<>>
    /\ annotations' = NoAnnotations
    /\ mean' = 0
    /\ beats' = <<>>
    /\ labels' = <<>>

\* p.create_img_arrays(classes, names) with one record name or more: the
\* call is entered from the notebook, also after an earlier call ended with
\* an exception
Call ==
    /\ pc \in {"idle", "error"}
    /\ Len(call_args) < MaxCalls
    /\ \E classes \in Tables, n \in 1..MaxRecords :
          /\ supergroup_classes' = classes
          /\ record_names' = [k \in 1..n |-> k]
          /\ call_args' = Append(call_args, classes)
    /\ pc' = "loop"
    /\ ClearLocals
    /\ UNCHANGED <<image_arrays, label_strings>>
    /\ UNCHANGED gfxVars

\* for record_name in record_names: load_data and get_mean_heartrate
Load ==
    /\ pc = "loop"
    /\ record_names # <<>>
    /\ record_names' = Tail(record_names)
    /\ \E r \in mitdb :
          /\ signal' = r.signal
          /\ annotations' = r.annotations
          /\ mean' = r.mean
    /\ pc' = "loaded"
    /\ UNCHANGED <<image_arrays, label_strings, supergroup_classes, beats,
                   labels, call_args>>
    /\ UNCHANGED gfxVars

\* beats, labels = self.separate_hearbeats(signal, annotations, mean, supergroup_classes)
Segment ==
    /\ pc = "loaded"
    /\ LET out == separate_hearbeats(signal, annotations, mean, supergroup_classes)
       IN  /\ beats' = out.signal_images
           /\ labels' = out.labels
    /\ pc' = "segmented"
    /\ UNCHANGED <<image_arrays, label_strings, supergroup_classes, record_names,
                   signal, annotations, mean, call_args>>
    /\ UNCHANGED gfxVars

ExtendLabelsOverwrite ==
    /\ pc = "segmented"
    /\ IF Len(beats) = Len(labels)
       THEN /\ label_strings' = PySlice(labels, start, end)
            /\ pc' = "render"
            /\ UNCHANGED <<signal, annotations, mean, beats, labels>>
       ELSE /\ label_strings' = label_strings
            /\ pc' = "error"
            /\ ClearLocals
    /\ UNCHANGED <<image_arrays, supergroup_classes, record_names, call_args>>
    /\ UNCHANGED gfxVars

\* assert len(beats) == len(labels); self.__label_strings.extend(labels[start: end])
\* A failed assertion raises AssertionError out of the call.
ExtendLabels ==
    /\ pc = "segmented"
    /\ IF Len(beats) = Len(labels)
       THEN /\ label_strings' = label_strings \o PySlice(labels, start, end)
            /\ pc' = "render"
            /\ UNCHANGED <<signal, annotations, mean, beats, labels>>
       ELSE /\ label_strings' = label_strings
            /\ pc' = "error"
            /\ ClearLocals
    /\ UNCHANGED <<image_arrays, supergroup_classes, record_names, call_args>>
    /\ UNCHANGED gfxVars

\* imgs = np.array([self.get_image_array(beat) for beat in beats[start: end]])
\* self.__image_arrays.extend(imgs)
\* The bound call hands get_image_array two arguments (self, beat); it
\* declares one parameter, so the first call of the comprehension raises
\* TypeError before the body runs.  An empty selection makes no call.
Render ==
    /\ pc = "render"
    /\ LET sel == PySlice(beats, start, end)
       IN  IF sel # <<>> /\ bound_call_args # get_image_array_params
           THEN /\ pc' = "error"
                /\ image_arrays' = image_arrays
           ELSE /\ image_arrays' = image_arrays \o [k \in 1..Len(sel) |-> Image(sel[k])]
                /\ pc' = "loop"
    /\ ClearLocals
    /\ UNCHANGED <<label_strings, supergroup_classes, record_names, call_args>>
    /\ UNCHANGED gfxVars

\* the for loop is exhausted: the call returns
Return ==
    /\ pc = "loop"
    /\ record_names = <<>>
    /\ pc' = "idle"
    /\ UNCHANGED aggVars
    /\ UNCHANGED gfxVars

\* image_arrays and label_strings are read between calls and after a call
\* that ended with an exception
Observable == pc \in {"idle", "error"}

Init ==
    /\ image_arrays = <<>>
    /\ label_strings = <<>>
    /\ pc = "idle"
    /\ supergroup_classes = supergroups_exc_n
    /\ record_names = <<>>
    /\ signal = <<>>
    /\ annotations = NoAnnotations
    /\ mean = 0
    /\ beats = <<>>
    /\ labels = <<>>
    /\ call_args = <<>>
    /\ data = Array(1, <<>>)
    /\ fig = "none"
    /\ buf = "none"
    /\ img_array = <<>>
    /\ open_figs = 0
    /\ renders = 0

Next == Call \/ Load \/ Segment \/ ExtendLabels \/ Render \/ Return

Spec == Init /\ [][Next]_vars

----------------------------------------------------------------------------
(* separate_hearbeats on its own: the inputs are drawn in the initial     *)
(* state, as they stand in create_img_arrays right before the call.       *)

InitSeg ==
    /\ image_arrays = <<>>
    /\ label_strings = <<>>
    /\ pc = "loaded"
    /\ supergroup_classes \in Tables
    /\ record_names = <<>>
    /\ \E r \in Records \cup Examples :
          /\ signal = r.signal
          /\ annotations = r.annotations
          /\ mean = r.mean
    /\ beats = <<>>
    /\ labels = <<>>
    /\ call_args = <<>>
    /\ data = Array(1, <<>>)
    /\ fig = "none"
    /\ buf = "none"
    /\ img_array = <<>>
    /\ open_figs = 0
    /\ renders = 0

NextSeg == Segment

SpecSeg == InitSeg /\ [][NextSeg]_vars

----------------------------------------------------------------------------
(* get_image_array called on its own, process_data.get_image_array(d):     *)
(* the body, one step per statement that opens, uses or closes a resource. *)
(* A library call that fails raises, and the exception leaves the function *)
(* at once: the body has no try / finally and no with block.               *)

\* process_data.get_image_array(d); dpi, width, height
GiaCall ==
    /\ pc \in {"idle", "returned", "raised"}
    /\ renders < MaxRenders
    /\ renders' = renders + 1
    /\ \E d \in RenderInputs : data' = d
    /\ fig' = "none"
    /\ buf' = "none"
    /\ img_array' = <<>>
    /\ pc' = "subplots"
    /\ UNCHANGED open_figs
    /\ UNCHANGED aggVars

\* fig, ax = plt.subplots(figsize=(width/dpi, height/dpi))
GiaSubplots ==
    /\ pc = "subplots"
    /\ fig' = "open"
    /\ open_figs' = open_figs + 1
    /\ pc' = "plot"
    /\ UNCHANGED <<data, buf, img_array, renders>>
    /\ UNCHANGED aggVars

\* plt.plot(data); plt.axis('off')
GiaPlot ==
    /\ pc = "plot"
    /\ pc' = IF Plottable(data) THEN "buffer" ELSE "raised"
    /\ UNCHANGED gfxVars
    /\ UNCHANGED aggVars

\* buf = BytesIO()
GiaBuffer ==
    /\ pc = "buffer"
    /\ buf' = "open"
    /\ pc' = "savefig"
    /\ UNCHANGED <<data, fig, img_array, open_figs, renders>>
    /\ UNCHANGED aggVars

\* plt.savefig(buf, format='png'); buf.seek(0)
GiaSavefig ==
    /\ pc = "savefig"
    /\ \/ pc' = "close_fig"
       \/ pc' = "raised"
    /\ UNCHANGED gfxVars
    /\ UNCHANGED aggVars

\* plt.close(fig)
GiaCloseFig ==
    /\ pc = "close_fig"
    /\ fig' = "closed"
    /\ open_figs' = open_figs - 1
    /\ pc' = "decode"
    /\ UNCHANGED <<data, buf, img_array, renders>>
    /\ UNCHANGED aggVars

\* img_array = np.array(Image.open(buf))[:, :, 0:1]
GiaDecode ==
    /\ pc = "decode"
    /\ \/ /\ img_array' = Image(data.samples)
          /\ pc' = "close_buf"
       \/ /\ img_array' = img_array
          /\ pc' = "raised"
    /\ UNCHANGED <<data, fig, buf, open_figs, renders>>
    /\ UNCHANGED aggVars

\* buf.close()
GiaCloseBuf ==
    /\ pc = "close_buf"
    /\ buf' = "closed"
    /\ pc' = "return"
    /\ UNCHANGED <<data, fig, img_array, open_figs, renders>>
    /\ UNCHANGED aggVars

\* return img_array
GiaReturn ==
    /\ pc = "return"
    /\ pc' = "returned"
    /\ UNCHANGED gfxVars
    /\ UNCHANGED aggVars

NextGia ==
    \/ GiaCall \/ GiaSubplots \/ GiaPlot \/ GiaBuffer \/ GiaSavefig
    \/ GiaCloseFig \/ GiaDecode \/ GiaCloseBuf \/ GiaReturn

SpecGia == Init /\ [][NextGia]_vars

----------------------------------------------------------------------------
(* Properties of separate_hearbeats, stated over the state right after the *)
(* call: its inputs are signal, annotations, mean and supergroup_classes,  *)
(* its outputs beats and labels.                                           *)

\* annotation i has a symbol that is a key of the grouping table
Qualifies(i) == annotations.symbol[i] \in DOMAIN supergroup_classes

QualCount == Cardinality({i \in 1..Len(annotations.symbol) : Qualifies(i)})

\* the index of the j-th qualifying annotation, in annotation order
NthQual(j) ==
    CHOOSE i \in 1..Len(annotations.symbol) :
        Qualifies(i) /\ Cardinality({k \in 1..i : Qualifies(k)}) = j

\* floor((m / 100 * 0.786) / 2): the integer f with 2 f <= m * 0.00786 < 2 (f + 1)
FloorFrame(m) ==
    CHOOSE f \in 0..m : 200000 * f <= m * 786 /\ m * 786 < 200000 * (f + 1)

\* the samples signal[lo .. hi - 1], Python indices
Window(lo, hi) == [k \in 1..(hi - lo) |-> signal[lo + k]]

Min(a, b) == IF a < b THEN a ELSE b
Max(a, b) == IF a > b THEN a ELSE b

\* C1: separate_hearbeats returns as many windows as labels, and as many as
\* there are annotations whose symbol is a key of the grouping table; an
\* annotation with another symbol adds nothing.
C1_EqualLengths ==
    pc = "segmented" =>
        /\ Len(beats) = Len(labels)
        /\ Len(beats) = QualCount

\* a record where some annotations qualify and some are skipped
C1_Witness ==
    /\ pc = "segmented"
    /\ QualCount >= 2
    /\ QualCount < Len(annotations.symbol)
    /\ Len(beats) = QualCount

\* C2: the j-th output belongs to the j-th qualifying annotation (pos, symbol);
\* when frame <= pos and pos + frame <= len(signal) it is the 2 * frame samples
\* signal[pos - frame .. pos + frame - 1] with the label grouping_table[symbol].
\* Signal 0..999, annotation (500, 'N'), table {'N': 4}, frame 10 gives the
\* single window 490..509 and the label 4.
C2_InRangeWindow ==
    pc = "segmented" =>
        /\ \A j \in 1..QualCount :
              LET i == NthQual(j)
                  pos == annotations.sample[i]
                  f == FloorFrame(mean)
              IN  (f <= pos /\ pos + f <= Len(signal)) =>
                     /\ j <= Len(beats) /\ j <= Len(labels)
                     /\ beats[j] = Window(pos - f, pos + f)
                     /\ Len(beats[j]) = 2 * f
                     /\ labels[j] = supergroup_classes[annotations.symbol[i]]
        /\ (mean = 2600 /\ supergroup_classes = supergroups_inc_n) =>
              /\ FloorFrame(mean) = 10
              /\ beats = << [k \in 1..20 |-> 489 + k] >>
              /\ labels = <<4>>

\* the worked example has been segmented
C2_Witness ==
    /\ pc = "segmented"
    /\ mean = 2600
    /\ signal = Ramp(1000)
    /\ supergroup_classes = supergroups_inc_n
    /\ Len(beats) = 1
    /\ Len(beats[1]) = 20

\* C3: a window of a qualifying annotation with pos < frame or
\* pos + frame > len(signal) is clipped: it is the run of in-range samples
\* signal[max(0, pos - frame) .. min(len(signal), pos + frame) - 1], shorter
\* than 2 * frame and containing the sample at pos.
C3_ClippedWindow ==
    pc = "segmented" =>
        \A j \in 1..QualCount :
            LET i == NthQual(j)
                pos == annotations.sample[i]
                f == FloorFrame(mean)
                lo == Max(0, pos - f)
                hi == Min(Len(signal), pos + f)
            IN  (pos < f \/ pos + f > Len(signal)) =>
                   /\ beats[j] = Window(lo, hi)
                   /\ Len(beats[j]) < 2 * f
                   /\ lo <= pos /\ pos < hi

\* C10: frame is floor((mean_beat_distance * 0.786) / 2), one value per call:
\* every window of the record is the slice pos - frame .. pos + frame for
\* that frame; for 454.73 the frame is 178 (windows of 356 samples).
C10_FrameOncePerCall ==
    pc = "segmented" =>
        /\ \A j \in 1..QualCount :
              LET pos == annotations.sample[NthQual(j)]
                  f == FloorFrame(mean)
              IN  /\ j <= Len(beats)
                  /\ beats[j] = PySlice(signal, pos - f, pos + f)
        /\ mean = 45473 =>
              /\ FloorFrame(mean) = 178
              /\ \A j \in 1..Len(beats) : Len(beats[j]) = 2 * 178

\* record 100's mean beat distance, two annotations segmented
C10_Witness ==
    /\ pc = "segmented"
    /\ mean = 45473
    /\ Len(beats) = 2
    /\ beats[1] = Window(300 - 178, 300 + 178)
    /\ beats[2] = Window(700 - 178, 700 + 178)

----------------------------------------------------------------------------
(* Properties of create_img_arrays and of the two views *)

\* s without its first two and its last one elements
Trimmed(s) == [k \in 1..Max(0, Len(s) - 3) |-> s[k + 2]]

Images(ws) == [k \in 1..Len(ws) |-> Image(ws[k])]

Values(t) == {t[x] : x \in DOMAIN t}

LabelSet == {label_strings[k] : k \in 1..Len(label_strings)}

\* C4: every record adds to the dataset exactly its segmented (window, label)
\* pairs without the first two and the last one, and raises no error: the
\* labels step appends the trimmed labels, the images step appends the images
\* of the trimmed windows, and neither ends in an exception.
C4_TrimmedPairsAppended ==
    [][ /\ pc = "segmented" =>
              /\ label_strings' = label_strings \o Trimmed(labels)
              /\ pc' # "error"
        /\ pc = "render" =>
              /\ image_arrays' = image_arrays \o Images(Trimmed(beats))
              /\ pc' # "error" ]_vars

\* C5: whenever the views can be read (between calls, or after a call that
\* ended with an exception) image_arrays and label_strings have one length.
C5_ViewsAligned ==
    Observable => Len(image_arrays) = Len(label_strings)

\* C6: a record whose segmentation returns unequal window and label counts
\* makes the call fail at once: nothing of the record is appended, no later
\* record is loaded, the entries accumulated earlier stay.  The antecedent is
\* never met: separate_hearbeats returns lists of one length (C1), so the
\* formula holds without being exercised.
C6_MismatchAborts ==
    [][ (pc = "segmented" /\ Len(beats) # Len(labels)) =>
            /\ pc' = "error"
            /\ label_strings' = label_strings
            /\ image_arrays' = image_arrays
            /\ record_names' = record_names ]_vars

TwoDisjointCalls ==
    /\ Len(call_args) = 2
    /\ DOMAIN call_args[1] \cap DOMAIN call_args[2] = {}
    /\ Values(call_args[1]) \cap Values(call_args[2]) = {}

C11_TrimLeavesFullWindows ==
    pc = "render" =>
        \A k \in 1..Len(Trimmed(beats)) :
            /\ Trimmed(beats)[k] # <<>>
            /\ Len(Trimmed(beats)[k]) = 2 * FloorFrame(mean)

----------------------------------------------------------------------------
(* Property of get_image_array *)

\* C9: when control leaves get_image_array, by return or by an exception of
\* plotting, saving or decoding, the figure and the byte buffer the call
\* opened are closed.
C9_ResourcesReleased ==
    pc \in {"returned", "raised"} => (fig # "open" /\ buf # "open")

====
